---- MODULE Spec2Model ----
(***************************************************************************)
(* State-machine model of PostgresEntityStore                              *)
(* (packages/core/src/database/entity/postgresEntityStore.ts) and of the   *)
(* where-key handling of the plural GraphQL field (buildWhereObject).      *)
(*                                                                         *)
(* The store holds one mutable field, `schema`.  Every operation builds   *)
(* one statement, hands it to pool.query and, once the backend has        *)
(* answered, decodes the rows.  The backend is modelled by the meaning of *)
(* the statements the store sends to it.                                  *)
(***************************************************************************)
EXTENDS Bags, FiniteSets, Integers, Sequences, TLC

VARIABLES schema, tables, loader, clients, whereIn, whereOut

vars == <<schema, tables, loader, clients, whereIn, whereOut>>

(***************************************************************************)
(* JavaScript / SQL values, tagged with their type so that === is strict.  *)
(***************************************************************************)
Num(n) == [t |-> "number", v |-> n]
Bool(b) == [t |-> "boolean", v |-> b]
Str(s) == [t |-> "string", v |-> s]
Null == [t |-> "null"]
Undefined == [t |-> "undefined"]
Arr(vs) == [t |-> "array", v |-> vs]

(***************************************************************************)
(* Bounds of the model.                                                    *)
(***************************************************************************)
\* number of concurrent callers of the CRUD operations
NumClients == 2
\* largest `first` / `skip` a list call is given
MaxPage == 3

Clients == 1..NumClients

(***************************************************************************)
(* Schemas.  An entity has an id (its table name), a display name and an   *)
(* ordered list of fields; a field is scalar or derived.                   *)
(***************************************************************************)
ScalarField(n, gql) == [name |-> n, kind |-> "SCALAR", baseGqlType |-> gql]
\* a Boolean field; its migrateUpStatement makes the column a native boolean
\* or an integer that holds 1 or 0
BooleanField(n, native) ==
  [name |-> n, kind |-> "SCALAR", baseGqlType |-> "Boolean",
   migrateUpStatement |-> IF native THEN "boolean" ELSE "integer"]
\* a field that holds a list of scalars, stored as JSON text
ListField(n, gql) == [name |-> n, kind |-> "LIST", baseGqlType |-> gql]
DerivedField(n, ent, fld) ==
  [name |-> n, kind |-> "DERIVED", baseGqlType |-> ent,
   derivedFromEntityName |-> ent, derivedFromFieldName |-> fld]

OwnerEntity ==
  [id |-> "owners", name |-> "Owner",
   fields |-> << ScalarField("id", "String"),
                 ScalarField("name", "String"),
                 DerivedField("pets", "Pet", "owner"),
                 DerivedField("toys", "Toy", "owner"),
                 DerivedField("products", "Toy", "made_by") >>]
PetEntity ==
  [id |-> "pets", name |-> "Pet",
   fields |-> << ScalarField("id", "String"),
                 ScalarField("age", "Int"),
                 ScalarField("owner", "String"),
                 ScalarField("birth_year", "Int") >>]
ToyEntity ==
  [id |-> "toys", name |-> "Toy",
   fields |-> << ScalarField("id", "String"),
                 ScalarField("owner", "String"),
                 ScalarField("made_by", "String"),
                 BooleanField("broken", FALSE),
                 BooleanField("sold", TRUE),
                 ListField("tags", "String") >>]

NoSchema == [entities |-> << >>, set |-> FALSE]
SchemaA == [entities |-> << OwnerEntity, PetEntity >>, set |-> TRUE]
SchemaB == [entities |-> << OwnerEntity, ToyEntity >>, set |-> TRUE]
Schemas == {SchemaA, SchemaB}

AllEntities == {OwnerEntity, PetEntity, ToyEntity}
EntityIds == {e.id : e \in AllEntities}

Range(s) == {s[i] : i \in 1..Len(s)}

\* this.schema.entities.find((e) => e.id === entityId)
FindEntityById(sch, entityId) ==
  LET hits == {i \in 1..Len(sch.entities) : sch.entities[i].id = entityId}
  IN IF hits = {} THEN Undefined
     ELSE sch.entities[CHOOSE i \in hits : \A j \in hits : i <= j]

\* this.schema.entities.find((e) => e.name === name)
FindEntityByName(sch, name) ==
  LET hits == {i \in 1..Len(sch.entities) : sch.entities[i].name = name}
  IN IF hits = {} THEN Undefined
     ELSE sch.entities[CHOOSE i \in hits : \A j \in hits : i <= j]

\* entity.fieldByName[fieldName]
FieldByName(entity, fieldName) ==
  LET hits == {i \in 1..Len(entity.fields) : entity.fields[i].name = fieldName}
  IN IF hits = {} THEN Undefined
     ELSE entity.fields[CHOOSE i \in hits : \A j \in hits : i <= j]

\* entity.fields.filter(kind !== DERIVED).map(migrateUpStatement): the
\* columns of the table the CREATE statement makes
ColumnStatements(entity) ==
  {entity.fields[i].name :
     i \in {j \in 1..Len(entity.fields) : entity.fields[j].kind # "DERIVED"}}

(***************************************************************************)
(* The backend: a table is absent or holds a set of rows, each a function  *)
(* from the table's columns to values, with "id" the primary key.          *)
(***************************************************************************)
\* bools is the set of the columns whose type is the native boolean.
NoTable == [exists |-> FALSE, cols |-> {}, rows |-> {}, bools |-> {}]
EmptyTable(cols) == [exists |-> TRUE, cols |-> cols, rows |-> {}, bools |-> {}]

\* the columns of entity that its migrateUpStatements make native booleans
BooleanColumns(entity) ==
  {entity.fields[i].name :
     i \in {j \in 1..Len(entity.fields) :
              /\ entity.fields[j].kind # "DERIVED"
              /\ entity.fields[j].baseGqlType = "Boolean"
              /\ entity.fields[j].migrateUpStatement = "boolean"}}

\* the table CREATE TABLE "e" (column statements) makes
CreatedTable(entity) ==
  [EmptyTable(ColumnStatements(entity)) EXCEPT !.bools = BooleanColumns(entity)]

(***************************************************************************)
(* Building the statements                                                 *)
(***************************************************************************)
\* JavaScript truthiness, as used by  if (where) / if (first) / if (skip)
Truthy(v) ==
  CASE v.t = "undefined" -> FALSE
    [] v.t = "null" -> FALSE
    [] v.t = "number" -> v.v # 0
    [] v.t = "string" -> v.v # ""
    [] v.t = "boolean" -> v.v
    [] OTHER -> TRUE

\* instance.id = id that leaves an id the instance already carries
SetIdKeepingOwn(instance, id) ==
  IF \E i \in 1..Len(instance) : instance[i].k = "id"
    THEN instance
    ELSE Append(instance, [k |-> "id", v |-> Str(id)])

\* instance.id = id : an own key keeps its position, a new key goes last
SetId(instance, id) ==
  IF \E i \in 1..Len(instance) : instance[i].k = "id"
    THEN [i \in 1..Len(instance) |->
            IF instance[i].k = "id" THEN [k |-> "id", v |-> Str(id)] ELSE instance[i]]
    ELSE Append(instance, [k |-> "id", v |-> Str(id)])

\* the JSON texts the model uses and the values they denote; any other
\* text is not JSON
JsonTexts ==
  [text \in {"[]", "[\"x\"]", "[\"x\",\"y\"]", "[1,2]", "1", "true", "null"} |->
     CASE text = "[]" -> Arr(<< >>)
       [] text = "[\"x\"]" -> Arr(<< Str("x") >>)
       [] text = "[\"x\",\"y\"]" -> Arr(<< Str("x"), Str("y") >>)
       [] text = "[1,2]" -> Arr(<< Num(1), Num(2) >>)
       [] text = "1" -> Num(1)
       [] text = "true" -> Bool(TRUE)
       [] text = "null" -> Null]

\* JSON.stringify(v) of a list
JSONStringify(v) ==
  IF \E text \in DOMAIN JsonTexts : JsonTexts[text] = v
    THEN Str(CHOOSE text \in DOMAIN JsonTexts : JsonTexts[text] = v)
    ELSE v

\* the storage value of a typed value
EncodeValue(v) ==
  CASE v.t = "boolean" -> IF v.v THEN Num(1) ELSE Num(0)
    [] v.t = "undefined" -> Null
    [] v.t = "array" -> JSONStringify(v)
    [] OTHER -> v

\* getColumnValuePairs(instance): one {column, value} per own key, in order
getColumnValuePairs(instance) ==
  [i \in 1..Len(instance) |->
     [column |-> instance[i].k, value |-> EncodeValue(instance[i].v)]]

\* SELECT "e".* FROM "e" WHERE "e"."id" = $1
GetStatement(entityId, id) ==
  [kind |-> "SELECT_BY_ID", table |-> entityId, idParam |-> 1,
   params |-> << Str(id) >>]

\* INSERT INTO "e" (columns) VALUES ($1, .., $n) RETURNING *
InsertStatement(entityId, id, instance) ==
  LET pairs == getColumnValuePairs(SetId(instance, id))
      insertValues == [i \in 1..Len(pairs) |-> pairs[i].value]
  IN [kind |-> "INSERT", table |-> entityId,
      columns |-> [i \in 1..Len(pairs) |-> pairs[i].column],
      values |-> [i \in 1..Len(insertValues) |-> i],
      params |-> insertValues]

\* the update statement with the id of the instance left in the SET list
UpdateStatementWithId(entityId, id, instance) ==
  LET pairs == getColumnValuePairs(instance)
      updatePairs == pairs
      updateValues == [i \in 1..Len(updatePairs) |-> updatePairs[i].value]
  IN [kind |-> "UPDATE", table |-> entityId,
      set |-> [i \in 1..Len(updatePairs) |->
                 [column |-> updatePairs[i].column, param |-> i]],
      idParam |-> Len(updatePairs) + 1,
      params |-> Append(updateValues, Str(id))]

\* UPDATE "e" SET c1 = $1, .. WHERE "id" = $(n+1) RETURNING *
UpdateStatement(entityId, id, instance) ==
  LET pairs == getColumnValuePairs(instance)
      updatePairs == SelectSeq(pairs, LAMBDA p : p.column # "id")
      updateValues == [i \in 1..Len(updatePairs) |-> updatePairs[i].value]
  IN [kind |-> "UPDATE", table |-> entityId,
      set |-> [i \in 1..Len(updatePairs) |->
                 [column |-> updatePairs[i].column, param |-> i]],
      idParam |-> Len(updatePairs) + 1,
      params |-> Append(updateValues, Str(id))]

\* the upsert statement with the SET parameters numbered from $1
UpsertStatementUnshifted(entityId, id, instance) ==
  LET pairs == getColumnValuePairs(SetId(instance, id))
      insertValues == [i \in 1..Len(pairs) |-> pairs[i].value]
      updatePairs == SelectSeq(pairs, LAMBDA p : p.column # "id")
      updateValues == [i \in 1..Len(updatePairs) |-> updatePairs[i].value]
  IN [kind |-> "UPSERT", table |-> entityId,
      columns |-> [i \in 1..Len(pairs) |-> pairs[i].column],
      values |-> [i \in 1..Len(insertValues) |-> i],
      set |-> [i \in 1..Len(updatePairs) |->
                 [column |-> updatePairs[i].column, param |-> i]],
      params |-> insertValues \o updateValues]

\* INSERT INTO "e" (columns) VALUES ($1, .., $n)
\*   ON CONFLICT("id") DO UPDATE SET c1 = $(n+1), .. RETURNING *
UpsertStatement(entityId, id, instance) ==
  LET pairs == getColumnValuePairs(SetId(instance, id))
      insertValues == [i \in 1..Len(pairs) |-> pairs[i].value]
      updatePairs == SelectSeq(pairs, LAMBDA p : p.column # "id")
      updateValues == [i \in 1..Len(updatePairs) |-> updatePairs[i].value]
  IN [kind |-> "UPSERT", table |-> entityId,
      columns |-> [i \in 1..Len(pairs) |-> pairs[i].column],
      values |-> [i \in 1..Len(insertValues) |-> i],
      set |-> [i \in 1..Len(updatePairs) |->
                 [column |-> updatePairs[i].column,
                  param |-> i + Len(insertValues)]],
      params |-> insertValues \o updateValues]

\* DELETE FROM "e" WHERE "id" = $1
DeleteStatement(entityId, id) ==
  [kind |-> "DELETE", table |-> entityId, idParam |-> 1,
   params |-> << Str(id) >>]

(***************************************************************************)
(* The filter compiler.  A where key is the sequence of the pieces between *)
(* its underscores: "birth_year_gt" is <<"birth", "year", "gt">>.          *)
(***************************************************************************)
\* key.split(/_(.*)/s) : the text before the first underscore, and all the
\* text after it (undefined when the key has no underscore)
SplitKey(key) ==
  [fieldName |-> Head(key),
   rest |-> IF Len(key) = 1 THEN [defined |-> FALSE, text |-> << >>]
            ELSE [defined |-> TRUE, text |-> Tail(key)]]

\* rawFilterType === undefined ? "" : rawFilterType   ("" is << >>)
FilterTypeOf(rest) ==
  IF ~rest.defined THEN << >>
  ELSE IF rest.text = << "" >> THEN << >> ELSE rest.text

Symbols(op, pre, suf, list) ==
  [operator |-> op, patternPrefix |-> pre, patternSuffix |-> suf, isList |-> list]

\* the backend symbols of every operator suffix
sqlSymbolsForFilterType ==
  [ft \in { << >>, <<"not">>, <<"in">>, <<"not", "in">>,
            <<"gt">>, <<"lt">>, <<"gte">>, <<"lte">>,
            <<"contains">>, <<"not", "contains">>,
            <<"starts", "with">>, <<"ends", "with">>,
            <<"not", "starts", "with">>, <<"not", "ends", "with">> } |->
     CASE ft = << >> -> Symbols("=", "", "", FALSE)
       [] ft = <<"not">> -> Symbols("!=", "", "", FALSE)
       [] ft = <<"in">> -> Symbols("in", "", "", TRUE)
       [] ft = <<"not", "in">> -> Symbols("not in", "", "", TRUE)
       [] ft = <<"gt">> -> Symbols(">", "", "", FALSE)
       [] ft = <<"lt">> -> Symbols("<", "", "", FALSE)
       [] ft = <<"gte">> -> Symbols(">=", "", "", FALSE)
       [] ft = <<"lte">> -> Symbols("<=", "", "", FALSE)
       [] ft = <<"contains">> -> Symbols("like", "%", "%", FALSE)
       [] ft = <<"not", "contains">> -> Symbols("not like", "%", "%", FALSE)
       [] ft = <<"starts", "with">> -> Symbols("like", "", "%", FALSE)
       [] ft = <<"ends", "with">> -> Symbols("like", "%", "", FALSE)
       [] ft = <<"not", "starts", "with">> -> Symbols("not like", "", "%", FALSE)
       [] ft = <<"not", "ends", "with">> -> Symbols("not like", "%", "", FALSE)]

\* the members a plain object inherits from Object.prototype, each with
\* the text it has as a property key
ObjectPrototype ==
  [member \in { <<"constructor">>, <<"toString">>, <<"toLocaleString">>,
                <<"valueOf">>, <<"hasOwnProperty">>, <<"isPrototypeOf">>,
                <<"propertyIsEnumerable">>, <<"", "", "proto", "", "">>,
                <<"", "", "defineGetter", "", "">>, <<"", "", "defineSetter", "", "">>,
                <<"", "", "lookupGetter", "", "">>, <<"", "", "lookupSetter", "", "">> } |->
     CASE member = <<"constructor">> -> "function Object() { [native code] }"
       [] member = <<"toString">> -> "function toString() { [native code] }"
       [] member = <<"toLocaleString">> -> "function toLocaleString() { [native code] }"
       [] member = <<"valueOf">> -> "function valueOf() { [native code] }"
       [] member = <<"hasOwnProperty">> -> "function hasOwnProperty() { [native code] }"
       [] member = <<"isPrototypeOf">> -> "function isPrototypeOf() { [native code] }"
       [] member = <<"propertyIsEnumerable">> ->
            "function propertyIsEnumerable() { [native code] }"
       [] member = <<"", "", "proto", "", "">> -> "[object Object]"
       [] member = <<"", "", "defineGetter", "", "">> ->
            "function __defineGetter__() { [native code] }"
       [] member = <<"", "", "defineSetter", "", "">> ->
            "function __defineSetter__() { [native code] }"
       [] member = <<"", "", "lookupGetter", "", "">> ->
            "function __lookupGetter__() { [native code] }"
       [] member = <<"", "", "lookupSetter", "", "">> ->
            "function __lookupSetter__() { [native code] }"]

\* sqlSymbolsForFilterType[filterType]: the symbols of a known suffix, the
\* inherited member a suffix names (its operator, patternPrefix,
\* patternSuffix and isList are undefined), or undefined
LookupSqlSymbols(filterType) ==
  IF filterType \in DOMAIN sqlSymbolsForFilterType
    THEN sqlSymbolsForFilterType[filterType]
  ELSE IF filterType \in DOMAIN ObjectPrototype
    THEN Symbols("undefined", "", "", FALSE)
  ELSE Undefined

\* getWhereValue(value, sqlSymbols): the text  <operator> <value> , the
\* value written out between the pattern prefix and suffix
getWhereValue(value, sqlSymbols) ==
  [operator |-> sqlSymbols.operator, literal |-> value,
   patternPrefix |-> sqlSymbols.patternPrefix,
   patternSuffix |-> sqlSymbols.patternSuffix]

\* one entry of Object.entries(where).map(...):  "<fieldName>" <whereValue>
WhereFragment(entry) ==
  LET parts == SplitKey(entry.key)
      filterType == FilterTypeOf(parts.rest)
      sqlSymbols == LookupSqlSymbols(filterType)
  IN IF sqlSymbols = Undefined
       THEN [status |-> "error", error |-> "UnknownOperator", filterType |-> filterType]
       ELSE [status |-> "ok",
             text |-> [field |-> parts.fieldName,
                       whereValue |-> getWhereValue(entry.value, sqlSymbols)]]

NoFilter ==
  [present |-> FALSE, where |-> [present |-> FALSE, entries |-> << >>],
   first |-> Undefined, skip |-> Undefined,
   orderBy |-> Undefined, orderDirection |-> Undefined]

\* the fragments with first and skip taking each other's place
ListFragmentsSwapped(filter) ==
  LET where == filter.where
      whereFragments == [i \in 1..Len(where.entries) |->
                           WhereFragment(where.entries[i]).text]
      f1 == IF where.present
              THEN << [f |-> "WHERE", conjuncts |-> whereFragments] >> ELSE << >>
      f2 == IF Truthy(filter.orderBy)
              THEN << [f |-> "ORDER BY", field |-> filter.orderBy.v] >> ELSE << >>
      f3 == IF Truthy(filter.orderDirection)
              THEN << [f |-> "DIRECTION", dir |-> filter.orderDirection.v] >> ELSE << >>
      f4 == IF Truthy(filter.skip)
              THEN << [f |-> "LIMIT", n |-> filter.skip.v] >> ELSE << >>
      f5 == IF Truthy(filter.first)
              THEN (IF ~Truthy(filter.skip)
                      THEN << [f |-> "LIMIT", n |-> 0 - 1] >> ELSE << >>)
                   \o << [f |-> "OFFSET", n |-> filter.first.v] >>
              ELSE << >>
  IN f1 \o f2 \o f3 \o f4 \o f5

\* the fragments getEntities joins after  SELECT * FROM "e"
ListFragments(filter) ==
  LET where == filter.where
      whereFragments == [i \in 1..Len(where.entries) |->
                           WhereFragment(where.entries[i]).text]
      f1 == IF where.present
              THEN << [f |-> "WHERE", conjuncts |-> whereFragments] >> ELSE << >>
      f2 == IF Truthy(filter.orderBy)
              THEN << [f |-> "ORDER BY", field |-> filter.orderBy.v] >> ELSE << >>
      f3 == IF Truthy(filter.orderDirection)
              THEN << [f |-> "DIRECTION", dir |-> filter.orderDirection.v] >> ELSE << >>
      f4 == IF Truthy(filter.first)
              THEN << [f |-> "LIMIT", n |-> filter.first.v] >> ELSE << >>
      f5 == IF Truthy(filter.skip)
              THEN (IF ~Truthy(filter.first)
                      THEN << [f |-> "LIMIT", n |-> 0 - 1] >> ELSE << >>)
                   \o << [f |-> "OFFSET", n |-> filter.skip.v] >>
              ELSE << >>
  IN f1 \o f2 \o f3 \o f4 \o f5

\* getEntities up to pool.query: the statement, or the error thrown while
\* the where fragments are built
ListStatement(entityId, filter) ==
  LET bad == {i \in 1..Len(filter.where.entries) :
                WhereFragment(filter.where.entries[i]).status = "error"}
  IN IF filter.where.present /\ bad # {}
       THEN [status |-> "error", error |-> "UnknownOperator",
             key |-> filter.where.entries[CHOOSE i \in bad : \A j \in bad : i <= j].key]
       ELSE [status |-> "ok",
             stmt |-> [kind |-> "SELECT", table |-> entityId,
                       fragments |-> ListFragments(filter), params |-> << >>]]

(***************************************************************************)
(* The backend's execution of one statement.  Execute gives the set of    *)
(* outcomes [tables, resp] the backend may produce (a SELECT without an   *)
(* ORDER BY, or one whose order leaves ties, may give the rows in any     *)
(* order that respects it).                                               *)
(***************************************************************************)
Failure(err) == [ok |-> FALSE, rows |-> << >>, rowCount |-> 0, error |-> err]
Rows(rs) == [ok |-> TRUE, rows |-> rs, rowCount |-> Len(rs), error |-> ""]

\* the collation of the strings the model uses
StrOrder == << "", "a", "b", "c", "d", "x", "y" >>
StrRank(s) == CHOOSE i \in 1..Len(StrOrder) : StrOrder[i] = s

\* a < b for two values of one type
Less(a, b) ==
  IF a.t = "number" THEN a.v < b.v ELSE StrRank(a.v) < StrRank(b.v)

\* x LIKE prefix || p || suffix, for strings of at most one character
Like(x, p, prefix, suffix) ==
  IF prefix = "" /\ suffix = "" THEN x.v = p.v
  ELSE p.v = "" \/ x.v = p.v

\* the literal can be read as a value of the column holding x
Comparable(x, whereValue) ==
  IF whereValue.operator \in {"in", "not in"}
    THEN /\ whereValue.literal.t = "array"
         /\ \A i \in 1..Len(whereValue.literal.v) : whereValue.literal.v[i].t = x.t
    ELSE IF whereValue.operator \in {"like", "not like"}
      THEN x.t = "string" /\ whereValue.literal.t = "string"
      ELSE whereValue.literal.t = x.t

\* the comparison operators of the backend; any other word in the place of
\* an operator is a syntax error
Operators == {"=", "!=", ">", "<", ">=", "<=", "in", "not in", "like", "not like"}

\* "<field>" <operator> <literal> on one row; a NULL column satisfies nothing
EvalCondition(row, c) ==
  LET x == row[c.field]
      w == c.whereValue
  IN IF x = Null THEN FALSE
     ELSE CASE w.operator = "=" -> x = w.literal
            [] w.operator = "!=" -> x # w.literal
            [] w.operator = ">" -> Less(w.literal, x)
            [] w.operator = "<" -> Less(x, w.literal)
            [] w.operator = ">=" -> ~Less(x, w.literal)
            [] w.operator = "<=" -> ~Less(w.literal, x)
            [] w.operator = "in" ->
                 \E i \in 1..Len(w.literal.v) : w.literal.v[i] = x
            [] w.operator = "not in" ->
                 \A i \in 1..Len(w.literal.v) : w.literal.v[i] # x
            [] w.operator = "like" ->
                 Like(x, w.literal, w.patternPrefix, w.patternSuffix)
            [] w.operator = "not like" ->
                 ~Like(x, w.literal, w.patternPrefix, w.patternSuffix)

\* r1 sorts strictly before r2 under ORDER BY field dir (NULLs last when
\* ascending, first when descending)
Before(r1, r2, field, dir) ==
  LET a == r1[field]
      b == r2[field]
  IN IF dir = "desc"
       THEN IF a = Null THEN b # Null
            ELSE IF b = Null THEN FALSE ELSE Less(b, a)
       ELSE IF b = Null THEN a # Null
            ELSE IF a = Null THEN FALSE ELSE Less(a, b)

\* every arrangement of the rows of S in a sequence
Arrangements(S) ==
  {p \in [1..Cardinality(S) -> S] :
     \A i, j \in 1..Cardinality(S) : i # j => p[i] # p[j]}

HasFragment(fragments, name) == \E i \in 1..Len(fragments) : fragments[i].f = name
Fragment(fragments, name) ==
  fragments[CHOOSE i \in 1..Len(fragments) : fragments[i].f = name]

\* rows s[m+1 .. m+n] of s, as OFFSET m LIMIT n gives them
Page(s, offset, limit) ==
  LET from == offset + 1
      to == IF limit < 0 \/ offset + limit > Len(s) THEN Len(s) ELSE offset + limit
  IN IF from > Len(s) THEN << >> ELSE SubSeq(s, from, to)

\* SELECT * FROM "table" <fragments>
ExecuteSelect(stmt, tbls) ==
  LET t == tbls[stmt.table]
      fr == stmt.fragments
      conj == IF HasFragment(fr, "WHERE") THEN Fragment(fr, "WHERE").conjuncts ELSE << >>
      ordered == HasFragment(fr, "ORDER BY")
      field == IF ordered THEN Fragment(fr, "ORDER BY").field ELSE ""
      directed == HasFragment(fr, "DIRECTION")
      dir == IF directed THEN Fragment(fr, "DIRECTION").dir ELSE "asc"
      limit == IF HasFragment(fr, "LIMIT") THEN Fragment(fr, "LIMIT").n ELSE 0 - 1
      offset == IF HasFragment(fr, "OFFSET") THEN Fragment(fr, "OFFSET").n ELSE 0
      fail(err) == {[tables |-> tbls, resp |-> Failure(err)]}
  IN IF (HasFragment(fr, "WHERE") /\ conj = << >>)
          \/ (\E i \in 1..Len(conj) : conj[i].whereValue.operator \notin Operators)
          \/ (directed /\ ~ordered)
          \/ dir \notin {"asc", "desc"}
       THEN fail("SyntaxError")
     ELSE IF ~t.exists THEN fail("UndefinedTable")
     ELSE IF (\E i \in 1..Len(conj) : conj[i].field \notin t.cols)
               \/ (ordered /\ field \notin t.cols)
       THEN fail("UndefinedColumn")
     ELSE IF \E i \in 1..Len(conj) : \E r \in t.rows :
               r[conj[i].field] # Null /\ ~Comparable(r[conj[i].field], conj[i].whereValue)
       THEN fail("InvalidTextRepresentation")
     ELSE IF HasFragment(fr, "LIMIT") /\ limit < 0
       THEN fail("InvalidRowCount")
     ELSE
       LET hits == {r \in t.rows : \A i \in 1..Len(conj) : EvalCondition(r, conj[i])}
           orders == {p \in Arrangements(hits) :
                        ordered => \A i, j \in 1..Cardinality(hits) :
                                     i < j => ~Before(p[j], p[i], field, dir)}
       IN {[tables |-> tbls, resp |-> Rows(Page(p, offset, limit))] : p \in orders}

\* the row an INSERT stores: named columns from their parameters, the
\* others NULL
NewRow(cols, columns, values, params) ==
  [c \in cols |->
     IF \E i \in 1..Len(columns) : columns[i] = c
       THEN params[values[CHOOSE i \in 1..Len(columns) : columns[i] = c]]
       ELSE Null]

\* a row after  SET c1 = $p1, ..
SetRow(row, set, params) ==
  [c \in DOMAIN row |->
     IF \E i \in 1..Len(set) : set[i].column = c
       THEN params[set[CHOOSE i \in 1..Len(set) : set[i].column = c].param]
       ELSE row[c]]

\* a row as table t holds it: a native boolean column takes 1 as true and
\* 0 as false
Typed(t, row) ==
  [c \in DOMAIN row |->
     IF c \in t.bools /\ row[c] \in {Num(1), Num(0)}
       THEN Bool(row[c] = Num(1))
       ELSE row[c]]

WithId(t, id) == {r \in t.rows : r["id"] = id}
PutRows(tbls, e, rows) == [tbls EXCEPT ![e].rows = rows]

\* one statement, run atomically against the tables
Execute(stmt, tbls) ==
  LET t == tbls[stmt.table]
      fail(err) == {[tables |-> tbls, resp |-> Failure(err)]}
      one(newTables, rs) == {[tables |-> newTables, resp |-> Rows(rs)]}
      oneCount(newTables, n) ==
        {[tables |-> newTables,
          resp |-> [ok |-> TRUE, rows |-> << >>, rowCount |-> n, error |-> ""]]}
  IN CASE stmt.kind = "SELECT" -> ExecuteSelect(stmt, tbls)
       [] stmt.kind = "SELECT_BY_ID" ->
            IF ~t.exists THEN fail("UndefinedTable")
            ELSE {[tables |-> tbls, resp |-> Rows(p)] :
                    p \in Arrangements(WithId(t, stmt.params[stmt.idParam]))}
       [] stmt.kind = "INSERT" ->
            IF ~t.exists THEN fail("UndefinedTable")
            ELSE IF \E i \in 1..Len(stmt.columns) : stmt.columns[i] \notin t.cols
              THEN fail("UndefinedColumn")
            ELSE LET row == Typed(t, NewRow(t.cols, stmt.columns, stmt.values, stmt.params))
                 IN IF row["id"] = Null THEN fail("NotNullViolation")
                    ELSE IF WithId(t, row["id"]) # {} THEN fail("UniqueViolation")
                    ELSE one(PutRows(tbls, stmt.table, t.rows \cup {row}), << row >>)
       [] stmt.kind = "UPDATE" ->
            IF stmt.set = << >> THEN fail("SyntaxError")
            ELSE IF ~t.exists THEN fail("UndefinedTable")
            ELSE IF \E i \in 1..Len(stmt.set) : stmt.set[i].column \notin t.cols
              THEN fail("UndefinedColumn")
            ELSE LET old == WithId(t, stmt.params[stmt.idParam])
                     new == {Typed(t, SetRow(r, stmt.set, stmt.params)) : r \in old}
                 IN {[tables |-> PutRows(tbls, stmt.table, (t.rows \ old) \cup new),
                      resp |-> Rows(p)] : p \in Arrangements(new)}
       [] stmt.kind = "UPSERT" ->
            IF stmt.set = << >> THEN fail("SyntaxError")
            ELSE IF ~t.exists THEN fail("UndefinedTable")
            ELSE IF \/ \E i \in 1..Len(stmt.columns) : stmt.columns[i] \notin t.cols
                    \/ \E i \in 1..Len(stmt.set) : stmt.set[i].column \notin t.cols
              THEN fail("UndefinedColumn")
            ELSE LET row == Typed(t, NewRow(t.cols, stmt.columns, stmt.values, stmt.params))
                     old == WithId(t, row["id"])
                     new == {Typed(t, SetRow(r, stmt.set, stmt.params)) : r \in old}
                 IN IF row["id"] = Null THEN fail("NotNullViolation")
                    ELSE IF old = {}
                      THEN one(PutRows(tbls, stmt.table, t.rows \cup {row}), << row >>)
                      ELSE {[tables |-> PutRows(tbls, stmt.table, (t.rows \ old) \cup new),
                             resp |-> Rows(p)] : p \in Arrangements(new)}
       [] stmt.kind = "DELETE" ->
            IF ~t.exists THEN fail("UndefinedTable")
            ELSE LET old == WithId(t, stmt.params[stmt.idParam])
                 IN oneCount(PutRows(tbls, stmt.table, t.rows \ old), Cardinality(old))

(***************************************************************************)
(* Decoding                                                                *)
(***************************************************************************)
Ok(v) == [status |-> "ok", value |-> v]
Error(e) == [status |-> "error", error |-> e]

\* JSON.parse(value): the argument is turned into a string first, so a
\* number, a boolean and null parse to themselves, undefined is no JSON,
\* and a list parses as the text of its elements joined by commas
RECURSIVE JSONParse(_)
JSONParse(value) ==
  CASE value.t = "string" ->
         IF value.v \in DOMAIN JsonTexts THEN Ok(JsonTexts[value.v])
         ELSE Error("SyntaxError")
    [] value.t \in {"number", "boolean", "null"} -> Ok(value)
    [] value.t = "array" ->
         IF Len(value.v) = 1 /\ value.v[1].t \notin {"null", "undefined"}
           THEN JSONParse(value.v[1])
           ELSE Error("SyntaxError")
    [] OTHER -> Error("SyntaxError")

\* the decoded value of one column: a column with no field of its name is
\* left as it is, a Boolean field is true exactly for 1, a LIST field is
\* JSON.parse'd (which may throw), any other is left as it is
DecodeValue(field, value) ==
  IF field = Undefined THEN Ok(value)
  ELSE IF field.baseGqlType = "Boolean"
    THEN Ok(IF value = Num(1) THEN Bool(TRUE) ELSE Bool(FALSE))
  ELSE IF field.kind = "LIST" THEN JSONParse(value)
  ELSE Ok(value)

\* deserialize(entityId, instance); rows[0] of an empty row set is
\* undefined, and Object.entries(undefined) throws a TypeError
deserialize(sch, entityId, instance) ==
  IF ~sch.set THEN Error("Uninitialized")
  ELSE LET entity == FindEntityById(sch, entityId)
       IN IF entity = Undefined THEN Error("EntityNotFound")
          ELSE IF instance = Undefined THEN Error("TypeError")
          ELSE LET each == [fieldName \in DOMAIN instance |->
                              DecodeValue(FieldByName(entity, fieldName),
                                          instance[fieldName])]
               IN IF \E fieldName \in DOMAIN instance : each[fieldName].status = "error"
                    THEN Error("SyntaxError")
                    ELSE Ok([fieldName \in DOMAIN instance |-> each[fieldName].value])

\* rows[0]
FirstRow(rows) == IF Len(rows) = 0 THEN Undefined ELSE rows[1]

\* rows.map((instance) => this.deserialize(entityId, instance))
DeserializeAll(sch, entityId, rows) ==
  LET each == [i \in 1..Len(rows) |-> deserialize(sch, entityId, rows[i])]
      bad == {i \in 1..Len(rows) : each[i].status = "error"}
  IN IF bad # {} THEN each[CHOOSE i \in bad : \A j \in bad : i <= j]
     ELSE Ok([i \in 1..Len(rows) |-> each[i].value])

IdleLoader ==
  [pc |-> "idle", op |-> "none", arg |-> NoSchema, prior |-> NoSchema,
   drops |-> {}, creates |-> {}, created |-> NoSchema, failed |-> FALSE,
   late |-> EmptyBag, result |-> "none"]

IdleClient ==
  [pc |-> "idle", op |-> "none", entity |-> "", target |-> "", id |-> "",
   inst |-> << >>, filter |-> NoFilter, field |-> "",
   at |-> [schema |-> NoSchema, pc |-> "idle", replaced |-> FALSE],
   stmt |-> [kind |-> "NONE"], issued |-> 0,
   resp |-> [ok |-> TRUE, rows |-> << >>, rowCount |-> 0],
   result |-> [status |-> "none"]]

Init ==
  /\ schema = NoSchema
  /\ tables = [e \in EntityIds |-> NoTable]
  /\ loader = IdleLoader
  /\ clients = [c \in Clients |-> IdleClient]
  /\ whereIn = << >>
  /\ whereOut = [status |-> "none"]

(***************************************************************************)
(* teardown() and load(newSchema?)                                         *)
(***************************************************************************)
\* the record of a new load or teardown call; the CREATE statements that a
\* load which has thrown left pending stay pending
NextLoader == [IdleLoader EXCEPT !.late = loader.late]

\* teardown() that also forgets the schema whose tables it drops
TeardownCallClearing ==
  /\ loader.pc \in {"idle", "done"}
  /\ IF ~schema.set
       THEN loader' = [NextLoader EXCEPT !.pc = "done", !.op = "teardown",
                                         !.result = "ok"]
       ELSE loader' = [NextLoader EXCEPT !.pc = "dropping", !.op = "teardown",
                                         !.prior = schema,
                                         !.drops = {e.id : e \in Range(schema.entities)}]
  /\ schema' = NoSchema
  /\ UNCHANGED <<tables, clients, whereIn, whereOut>>

\* teardown(), called on its own: the DROP statements of the current
\* schema are all issued before the first await
TeardownCall ==
  /\ loader.pc \in {"idle", "done"}
  /\ IF ~schema.set
       THEN loader' = [NextLoader EXCEPT !.pc = "done", !.op = "teardown",
                                         !.result = "ok"]
       ELSE loader' = [NextLoader EXCEPT !.pc = "dropping", !.op = "teardown",
                                         !.prior = schema,
                                         !.drops = {e.id : e \in Range(schema.entities)}]
  /\ UNCHANGED <<schema, tables, clients, whereIn, whereOut>>

\* load(newSchema?) that unsets the schema while it awaits teardown()
LoadCallClearing(arg) ==
  /\ loader.pc \in {"idle", "done"}
  /\ IF schema.set
       THEN /\ loader' = [NextLoader EXCEPT !.pc = "dropping", !.op = "load",
                                            !.arg = IF arg.set THEN arg ELSE schema,
                                            !.prior = schema,
                                            !.drops = {e.id : e \in Range(schema.entities)}]
            /\ schema' = NoSchema
       ELSE /\ schema' = IF arg.set THEN arg ELSE schema
            /\ IF ~schema'.set
                 THEN loader' = [NextLoader EXCEPT !.pc = "done", !.op = "load",
                                                   !.arg = arg, !.result = "ok"]
                 ELSE loader' = [NextLoader EXCEPT !.pc = "creating", !.op = "load",
                                                   !.arg = arg, !.created = schema',
                                                   !.creates = {e.id : e \in Range(schema'.entities)}]
  /\ UNCHANGED <<tables, clients, whereIn, whereOut>>

\* load(newSchema?): with a schema set it awaits teardown(); without one it
\* goes on synchronously to adopt newSchema and issue the CREATE statements
LoadCall(arg) ==
  /\ loader.pc \in {"idle", "done"}
  /\ IF schema.set
       THEN /\ loader' = [NextLoader EXCEPT !.pc = "dropping", !.op = "load",
                                            !.arg = arg, !.prior = schema,
                                            !.drops = {e.id : e \in Range(schema.entities)}]
            /\ schema' = schema
       ELSE /\ schema' = IF arg.set THEN arg ELSE schema
            /\ IF ~schema'.set
                 THEN loader' = [NextLoader EXCEPT !.pc = "done", !.op = "load",
                                                   !.arg = arg, !.result = "ok"]
                 ELSE loader' = [NextLoader EXCEPT !.pc = "creating", !.op = "load",
                                                   !.arg = arg, !.created = schema',
                                                   !.creates = {e.id : e \in Range(schema'.entities)}]
  /\ UNCHANGED <<tables, clients, whereIn, whereOut>>

\* a DROP that empties the table and leaves it in place
ExecDropRowsOnly(e) ==
  /\ e \in loader.drops
  /\ tables' = [tables EXCEPT ![e].rows = {}]
  /\ loader' = [loader EXCEPT !.drops = @ \ {e}]
  /\ UNCHANGED <<schema, clients, whereIn, whereOut>>

\* the backend runs one pending  DROP TABLE IF EXISTS "<entity.id>"
ExecDrop(e) ==
  /\ e \in loader.drops
  /\ tables' = [tables EXCEPT ![e] = NoTable]
  /\ loader' = [loader EXCEPT !.drops = @ \ {e}]
  /\ UNCHANGED <<schema, clients, whereIn, whereOut>>

\* load going on without awaiting teardown()
AfterTeardownNoAwait ==
  /\ loader.pc = "dropping"
  /\ IF loader.op = "teardown"
       THEN /\ loader.drops = {}
            /\ loader' = [loader EXCEPT !.pc = "done", !.result = "ok"]
            /\ schema' = schema
       ELSE /\ schema' = IF loader.arg.set THEN loader.arg ELSE schema
            /\ IF ~schema'.set
                 THEN loader' = [loader EXCEPT !.pc = "done", !.result = "ok"]
                 ELSE loader' = [loader EXCEPT !.pc = "creating", !.created = schema',
                                   !.creates = {e.id : e \in Range(schema'.entities)}]
  /\ UNCHANGED <<tables, clients, whereIn, whereOut>>

\* Promise.all of the drops has resolved: teardown() returns; load goes on
\* to adopt newSchema and issues every CREATE statement
AfterTeardown ==
  /\ loader.pc = "dropping"
  /\ loader.drops = {}
  /\ IF loader.op = "teardown"
       THEN /\ loader' = [loader EXCEPT !.pc = "done", !.result = "ok"]
            /\ schema' = schema
       ELSE /\ schema' = IF loader.arg.set THEN loader.arg ELSE schema
            /\ IF ~schema'.set
                 THEN loader' = [loader EXCEPT !.pc = "done", !.result = "ok"]
                 ELSE loader' = [loader EXCEPT !.pc = "creating", !.created = schema',
                                   !.creates = {e.id : e \in Range(schema'.entities)}]
  /\ UNCHANGED <<tables, clients, whereIn, whereOut>>

\* the backend runs one pending  CREATE TABLE "<entity.id>" (<columns>);
\* it fails when the table exists
\* the statement is one of the load in flight or one left pending by a
\* load that has thrown (late, a bag: two such loads may each have left a
\* CREATE of the same table); the failure of a late one reaches no caller
ExecCreate(e) ==
  /\ \E st \in {[late |-> FALSE, entity |-> FindEntityById(loader.created, e)] :
                  x \in IF loader.pc = "creating" /\ e \in loader.creates
                          THEN {e} ELSE {}}
             \cup {[late |-> TRUE, entity |-> x] : x \in {y \in BagToSet(loader.late) : y.id = e}} :
       LET settled == IF st.late THEN [loader EXCEPT !.late = @ (-) SetToBag({st.entity})]
                      ELSE [loader EXCEPT !.creates = @ \ {e}]
       IN IF tables[e].exists
            THEN /\ tables' = tables
                 /\ loader' = IF st.late THEN settled
                               ELSE [settled EXCEPT !.failed = TRUE]
            ELSE /\ tables' = [tables EXCEPT ![e] = CreatedTable(st.entity)]
                 /\ loader' = settled
  /\ UNCHANGED <<schema, clients, whereIn, whereOut>>

\* Promise.all of the creates has settled: load() returns when every CREATE
\* has succeeded, and throws as soon as one has failed, leaving the others
\* pending
LoadReturn ==
  /\ loader.pc = "creating"
  /\ loader.creates # {} => loader.failed
  /\ loader' = [loader EXCEPT
                  !.pc = "done",
                  !.result = IF loader.failed THEN "BackendError" ELSE "ok",
                  !.creates = {},
                  !.late = @ (+) SetToBag({FindEntityById(loader.created, e) :
                                             e \in loader.creates})]
  /\ UNCHANGED <<schema, tables, clients, whereIn, whereOut>>

Lifecycle ==
  \/ TeardownCall
  \/ \E arg \in Schemas \cup {NoSchema} : LoadCall(arg)
  \/ \E e \in EntityIds : ExecDrop(e)
  \/ AfterTeardown
  \/ \E e \in EntityIds : ExecCreate(e)
  \/ LoadReturn

(***************************************************************************)
(* The CRUD operations.  A call runs up to pool.query (Call), the backend  *)
(* executes the statement (ExecStatement), and the call resumes after its  *)
(* await (Return).                                                         *)
(***************************************************************************)
\* what the call found when it started: the schema it read, and where the
\* load or teardown in flight (if any) stood
CallContext ==
  [schema |-> schema, pc |-> loader.pc,
   replaced |-> /\ loader.op = "load"
                /\ loader.prior.set
                /\ loader.arg.set
                /\ loader.arg # loader.prior]

\* the arguments of a call
TheCall(op, e, id, inst, filter, field) ==
  [op |-> op, entity |-> e, id |-> id, inst |-> inst, filter |-> filter,
   field |-> field]

\* the call ends before any statement is sent
Thrown(c, call, err) ==
  clients' = [clients EXCEPT ![c] =
                [IdleClient EXCEPT !.pc = "done", !.op = call.op,
                                   !.entity = call.entity, !.target = call.entity,
                                   !.id = call.id, !.inst = call.inst,
                                   !.filter = call.filter, !.field = call.field,
                                   !.at = CallContext, !.result = err]]

\* the call sends stmt through pool.query and awaits the answer; the rows
\* of the answer are decoded as rows of target
Sent(c, call, target, stmt) ==
  clients' = [clients EXCEPT ![c] =
                [IdleClient EXCEPT !.pc = "waiting", !.op = call.op,
                                   !.entity = call.entity, !.target = target,
                                   !.id = call.id, !.inst = call.inst,
                                   !.filter = call.filter, !.field = call.field,
                                   !.at = CallContext, !.stmt = stmt,
                                   !.issued = 1]]

Ready(c) == clients[c].pc \in {"idle", "done"}

\* errorWrapper without its check
InitializedUnchecked == TRUE

\* errorWrapper: the check every operation but load and teardown starts with
Initialized == schema.set

GetCall(c, e, id) ==
  /\ Ready(c)
  /\ IF ~Initialized
       THEN Thrown(c, TheCall("get", e, id, << >>, NoFilter, ""), Error("Uninitialized"))
       ELSE Sent(c, TheCall("get", e, id, << >>, NoFilter, ""), e, GetStatement(e, id))
  /\ UNCHANGED <<schema, tables, loader, whereIn, whereOut>>

InsertCall(c, e, id, inst) ==
  /\ Ready(c)
  /\ IF ~Initialized
       THEN Thrown(c, TheCall("insert", e, id, inst, NoFilter, ""), Error("Uninitialized"))
       ELSE Sent(c, TheCall("insert", e, id, inst, NoFilter, ""), e, InsertStatement(e, id, inst))
  /\ UNCHANGED <<schema, tables, loader, whereIn, whereOut>>

UpdateCall(c, e, id, inst) ==
  /\ Ready(c)
  /\ IF ~Initialized
       THEN Thrown(c, TheCall("update", e, id, inst, NoFilter, ""), Error("Uninitialized"))
       ELSE Sent(c, TheCall("update", e, id, inst, NoFilter, ""), e, UpdateStatement(e, id, inst))
  /\ UNCHANGED <<schema, tables, loader, whereIn, whereOut>>

UpsertCall(c, e, id, inst) ==
  /\ Ready(c)
  /\ IF ~Initialized
       THEN Thrown(c, TheCall("upsert", e, id, inst, NoFilter, ""), Error("Uninitialized"))
       ELSE Sent(c, TheCall("upsert", e, id, inst, NoFilter, ""), e, UpsertStatement(e, id, inst))
  /\ UNCHANGED <<schema, tables, loader, whereIn, whereOut>>

DeleteCall(c, e, id) ==
  /\ Ready(c)
  /\ IF ~Initialized
       THEN Thrown(c, TheCall("delete", e, id, << >>, NoFilter, ""), Error("Uninitialized"))
       ELSE Sent(c, TheCall("delete", e, id, << >>, NoFilter, ""), e, DeleteStatement(e, id))
  /\ UNCHANGED <<schema, tables, loader, whereIn, whereOut>>

ListCall(c, e, filter) ==
  /\ Ready(c)
  /\ IF ~Initialized
       THEN Thrown(c, TheCall("list", e, "", << >>, filter, ""), Error("Uninitialized"))
       ELSE LET ls == ListStatement(e, filter)
            IN IF ls.status = "error"
                 THEN Thrown(c, TheCall("list", e, "", << >>, filter, ""), Error(ls.error))
                 ELSE Sent(c, TheCall("list", e, "", << >>, filter, ""), e, ls.stmt)
  /\ UNCHANGED <<schema, tables, loader, whereIn, whereOut>>

\* the pieces of a field name between its underscores
KeySegments(name) ==
  CASE name = "birth_year" -> << "birth", "year" >>
    [] name = "made_by" -> << "made", "by" >>
    [] OTHER -> << name >>

\* the filter getEntityDerivedField hands to getEntities
DerivedFilter(derivedField, instanceId) ==
  [NoFilter EXCEPT !.present = TRUE,
     !.where = [present |-> TRUE,
                entries |-> << [key |-> KeySegments(derivedField.derivedFromFieldName),
                                value |-> Str(instanceId)] >>]]

\* entity.fields.find(kind === DERIVED && name === derivedFieldName)
FindDerivedField(entity, derivedFieldName) ==
  LET hits == {i \in 1..Len(entity.fields) :
                 /\ entity.fields[i].kind = "DERIVED"
                 /\ entity.fields[i].name = derivedFieldName}
  IN IF hits = {} THEN Undefined
     ELSE entity.fields[CHOOSE i \in hits : \A j \in hits : i <= j]

DerivedCall(c, e, instanceId, derivedFieldName) ==
  /\ Ready(c)
  /\ LET thrown(err) ==
           Thrown(c, TheCall("derived", e, instanceId, << >>, NoFilter, derivedFieldName),
                  Error(err))
         entity == FindEntityById(schema, e)
         derivedField == FindDerivedField(entity, derivedFieldName)
         derivedFromEntity == FindEntityByName(schema, derivedField.derivedFromEntityName)
         filter == DerivedFilter(derivedField, instanceId)
         ls == ListStatement(derivedFromEntity.id, filter)
     IN IF ~Initialized THEN thrown("Uninitialized")
        ELSE IF entity = Undefined THEN thrown("EntityNotFound")
        ELSE IF derivedField = Undefined THEN thrown("FieldNotFound")
        ELSE IF derivedFromEntity = Undefined THEN thrown("EntityNotFound")
        ELSE IF ls.status = "error" THEN thrown(ls.error)
        ELSE Sent(c, TheCall("derived", e, instanceId, << >>, filter, derivedFieldName),
                  derivedFromEntity.id, ls.stmt)
  /\ UNCHANGED <<schema, tables, loader, whereIn, whereOut>>

\* the backend runs the statement of c, atomically
ExecStatement(c) ==
  /\ clients[c].pc = "waiting"
  /\ \E out \in Execute(clients[c].stmt, tables) :
       /\ tables' = out.tables
       /\ clients' = [clients EXCEPT ![c].pc = "responded", ![c].resp = out.resp]
  /\ UNCHANGED <<schema, loader, whereIn, whereOut>>

\* the outcome when delete reports success whatever the row count
OutcomeAlwaysDeleted(sch, cl) ==
  IF ~cl.resp.ok THEN Error(cl.resp.error)
  ELSE CASE cl.op = "get" ->
              IF cl.resp.rowCount = 0 THEN Ok(Null)
              ELSE deserialize(sch, cl.target, cl.resp.rows[1])
         [] cl.op \in {"insert", "update", "upsert"} ->
              deserialize(sch, cl.target, FirstRow(cl.resp.rows))
         [] cl.op = "delete" -> Ok(Bool(TRUE))
         [] cl.op \in {"list", "derived"} ->
              DeserializeAll(sch, cl.target, cl.resp.rows)

\* what the call returns or throws once pool.query has settled
Outcome(sch, cl) ==
  IF ~cl.resp.ok THEN Error(cl.resp.error)
  ELSE CASE cl.op = "get" ->
              IF cl.resp.rowCount = 0 THEN Ok(Null)
              ELSE deserialize(sch, cl.target, cl.resp.rows[1])
         [] cl.op \in {"insert", "update", "upsert"} ->
              deserialize(sch, cl.target, FirstRow(cl.resp.rows))
         [] cl.op = "delete" -> Ok(Bool(cl.resp.rowCount = 1))
         [] cl.op \in {"list", "derived"} ->
              DeserializeAll(sch, cl.target, cl.resp.rows)

Return(c) ==
  /\ clients[c].pc = "responded"
  /\ clients' = [clients EXCEPT ![c].pc = "done",
                                ![c].result = Outcome(schema, clients[c])]
  /\ UNCHANGED <<schema, tables, loader, whereIn, whereOut>>

(***************************************************************************)
(* Spec: one caller runs the operations while the schema is loaded,        *)
(* reloaded and torn down.                                                 *)
(***************************************************************************)
Entry(k, v) == [k |-> k, v |-> v]

\* the caller that runs beside load and teardown
Caller == CHOOSE c \in Clients : \A d \in Clients : c <= d
CallerIds == {"a"}
CallerInstances == { << Entry("age", Num(1)) >> }
DerivedNames == {"pets", "toys", "name"}

CallerStep ==
  \/ \E e \in EntityIds, id \in CallerIds : GetCall(Caller, e, id)
  \/ \E e \in EntityIds, id \in CallerIds, inst \in CallerInstances :
       InsertCall(Caller, e, id, inst)
  \/ \E e \in EntityIds, id \in CallerIds, inst \in CallerInstances :
       UpdateCall(Caller, e, id, inst)
  \/ \E e \in EntityIds, id \in CallerIds, inst \in CallerInstances :
       UpsertCall(Caller, e, id, inst)
  \/ \E e \in EntityIds, id \in CallerIds : DeleteCall(Caller, e, id)
  \/ \E e \in EntityIds : ListCall(Caller, e, NoFilter)
  \/ \E e \in EntityIds, id \in CallerIds, f \in DerivedNames :
       DerivedCall(Caller, e, id, f)
  \/ ExecStatement(Caller)
  \/ Return(Caller)

Next == Lifecycle \/ CallerStep

Spec == Init /\ [][Next]_vars

IdsOf(sch) == {e.id : e \in Range(sch.entities)}

\* C1: while no schema has been set, every get, insert, update, upsert,
\* delete, list and getDerivedField call has failed with Uninitialized
\* without sending a statement, and no load or teardown call has failed.
C1_UninitializedWithoutSchema ==
  ~schema.set =>
    /\ \A c \in Clients :
         clients[c].pc # "idle" =>
           /\ clients[c].pc = "done"
           /\ clients[c].result = Error("Uninitialized")
           /\ clients[c].issued = 0
           /\ clients[c].stmt.kind = "NONE"
    /\ loader.pc # "idle" => (loader.pc = "done" /\ loader.result = "ok")
    /\ \A e \in EntityIds : ~tables[e].exists

C1_Witness ==
  /\ ~schema.set
  /\ clients[Caller].pc = "done"
  /\ clients[Caller].op = "upsert"
  /\ clients[Caller].result = Error("Uninitialized")
  /\ loader.pc = "done"
  /\ loader.op = "load"

\* C2: within one load(newSchema) on a store that has a schema, no CREATE
\* is issued while a DROP of the prior schema is pending, the tables of the
\* prior schema are all gone when the CREATEs are issued, and the schema is
\* newSchema when the call completes.
C2_DropsBeforeCreates ==
  (loader.op = "load" /\ loader.prior.set /\ loader.arg.set) =>
    /\ loader.pc \in {"creating", "done"} => loader.drops = {}
    /\ (loader.pc = "creating" /\ loader.creates = IdsOf(loader.created)) =>
         \A e \in IdsOf(loader.prior) : ~tables[e].exists
    /\ loader.pc = "done" => schema = loader.arg

C2_Witness ==
  /\ loader.op = "load"
  /\ loader.prior = SchemaA
  /\ loader.arg = SchemaB
  /\ loader.pc = "done"
  /\ loader.result = "ok"
  /\ tables["toys"].exists

\* the entity a finished call named is absent from the schema the call read
NamesAbsentEntity(cl) ==
  \/ /\ cl.op = "get"
     /\ FindEntityById(cl.at.schema, cl.entity) = Undefined
  \/ /\ cl.op = "derived"
     /\ FindEntityById(cl.at.schema, cl.entity) # Undefined
     /\ FindDerivedField(FindEntityById(cl.at.schema, cl.entity), cl.field) # Undefined
     /\ FindEntityByName(cl.at.schema,
          FindDerivedField(FindEntityById(cl.at.schema, cl.entity),
                           cl.field).derivedFromEntityName) = Undefined

\* C4: a get or getDerivedField call made after a completed load(newSchema)
\* that replaced a schema, naming an entity absent from the current schema,
\* fails with EntityNotFound and sends no statement.
C4_AbsentEntityNotFound ==
  \A c \in Clients :
    (/\ clients[c].pc = "done"
     /\ clients[c].at.pc = "done"
     /\ clients[c].at.replaced
     /\ NamesAbsentEntity(clients[c]))
    => (clients[c].result = Error("EntityNotFound") /\ clients[c].issued = 0)

(***************************************************************************)
(* SpecCrud: one caller runs the operations against a store on which       *)
(* load(SchemaA) has completed.                                            *)
(***************************************************************************)
LoadedTables ==
  [e \in EntityIds |->
     IF FindEntityById(SchemaA, e) = Undefined THEN NoTable
     ELSE CreatedTable(FindEntityById(SchemaA, e))]

LoadedLoader ==
  [IdleLoader EXCEPT !.pc = "done", !.op = "load", !.arg = SchemaA,
                     !.created = SchemaA, !.result = "ok"]

InitLoaded ==
  /\ schema = SchemaA
  /\ tables = LoadedTables
  /\ loader = LoadedLoader
  /\ clients = [c \in Clients |-> IdleClient]
  /\ whereIn = << >>
  /\ whereOut = [status |-> "none"]

Ids == {"a", "b"}
Instances ==
  { << >>,
    << Entry("age", Num(1)) >>,
    << Entry("id", Str("b")), Entry("age", Num(2)) >>,
    << Entry("owner", Str("x")) >> }

CrudStep ==
  \/ \E e \in EntityIds, id \in Ids : GetCall(Caller, e, id)
  \/ \E e \in EntityIds, id \in Ids, inst \in Instances :
       InsertCall(Caller, e, id, inst)
  \/ \E e \in EntityIds, id \in Ids, inst \in Instances :
       UpdateCall(Caller, e, id, inst)
  \/ \E e \in EntityIds, id \in Ids, inst \in Instances :
       UpsertCall(Caller, e, id, inst)
  \/ \E e \in EntityIds, id \in Ids : DeleteCall(Caller, e, id)
  \/ ExecStatement(Caller)
  \/ Return(Caller)

SpecCrud == InitLoaded /\ [][CrudStep]_vars

\* the instance carries an id of its own, other than the id argument
CarriesOtherId(cl) ==
  \E i \in 1..Len(cl.inst) : cl.inst[i].k = "id" /\ cl.inst[i].v # Str(cl.id)

\* the statement of an insert or upsert call has just run and succeeded
Stored(c) ==
  /\ clients[c].pc = "waiting"
  /\ clients[c].op \in {"insert", "upsert"}
  /\ clients'[c].pc = "responded"
  /\ clients'[c].resp.ok

\* C8: an insert or upsert that succeeds returns a row whose id is the id
\* argument, and the statement it runs stores that row under the id argument
\* and adds or changes no row under any other id.
C8_IdArgumentWins ==
  /\ [](\A c \in Clients :
         (/\ clients[c].pc = "done"
          /\ clients[c].op \in {"insert", "upsert"}
          /\ clients[c].result.status = "ok")
         => clients[c].result.value["id"] = Str(clients[c].id))
  /\ [][\A c \in Clients :
          Stored(c) =>
            LET e == clients[c].entity
                x == Str(clients[c].id)
            IN /\ \E r \in tables'[e].rows :
                    r["id"] = x /\ clients'[c].resp.rows = << r >>
               /\ \A r \in tables'[e].rows \ tables[e].rows : r["id"] = x
               /\ \A r \in tables[e].rows \ tables'[e].rows : r["id"] = x]_vars

C8_Witness ==
  /\ clients[Caller].pc = "done"
  /\ clients[Caller].op = "insert"
  /\ clients[Caller].id = "a"
  /\ CarriesOtherId(clients[Caller])
  /\ clients[Caller].result.status = "ok"
  /\ clients[Caller].result.value["id"] = Str("a")
  /\ WithId(tables["pets"], Str("b")) = {}

\* C9: an update whose statement matched no row returns an empty result
\* instead of failing, and leaves the tables as they were.
C9_UpdateOfMissingRow ==
  \A c \in Clients :
    (/\ clients[c].pc = "done"
     /\ clients[c].op = "update"
     /\ clients[c].resp.ok
     /\ clients[c].resp.rowCount = 0)
    => clients[c].result.status = "ok"

(***************************************************************************)
(* SpecUpsert: every caller makes one upsert of the same id of "pets",     *)
(* concurrently, on a loaded store that may already hold a row of that id. *)
(***************************************************************************)
UpsertId == "a"
UpsertInstances ==
  { << >>,
    << Entry("age", Num(1)) >>,
    << Entry("age", Num(2)) >>,
    << Entry("owner", Str("x")) >>,
    << Entry("id", Str("b")), Entry("age", Num(2)) >>,
    << Entry("age", Num(1)), Entry("owner", Str("y")) >>,
    << Entry("owner", Str("x")), Entry("age", Num(2)) >> }

PetRow(id, age, owner, year) ==
  [c \in ColumnStatements(PetEntity) |->
     CASE c = "id" -> Str(id)
       [] c = "age" -> age
       [] c = "owner" -> owner
       [] c = "birth_year" -> year]

InitUpsert ==
  /\ schema = SchemaA
  /\ \E rows \in { {}, {PetRow(UpsertId, Num(3), Str("y"), Null)} } :
       tables = [LoadedTables EXCEPT !["pets"].rows = rows]
  /\ loader = LoadedLoader
  /\ clients = [c \in Clients |-> IdleClient]
  /\ whereIn = << >>
  /\ whereOut = [status |-> "none"]

UpsertStep ==
  \/ \E c \in Clients, inst \in UpsertInstances :
       clients[c].pc = "idle" /\ UpsertCall(c, "pets", UpsertId, inst)
  \/ \E c \in Clients : ExecStatement(c)
  \/ \E c \in Clients : Return(c)

SpecUpsert == InitUpsert /\ [][UpsertStep]_vars

\* the fields an instance names, other than id
NamedFields(inst) == {inst[i].k : i \in 1..Len(inst)} \ {"id"}

\* the value an instance gives a field, NULL for a field it does not name
ValueIn(inst, f) ==
  IF \E i \in 1..Len(inst) : inst[i].k = f
    THEN inst[CHOOSE i \in 1..Len(inst) : inst[i].k = f].v
    ELSE Null

AllUpsertsDone == \A c \in Clients : clients[c].pc = "done"

AllUpsertsSucceeded ==
  \A c \in Clients : clients[c].pc = "done" /\ clients[c].result.status = "ok"

\* C3 as stated: once the concurrent upserts of one id have succeeded there
\* is exactly one row of that id, and on the fields the upserts wrote it
\* equals one of the instances (NULL where that instance names no field).
C3_OneWriterWins ==
  AllUpsertsSucceeded =>
    /\ Cardinality(WithId(tables["pets"], Str(UpsertId))) = 1
    /\ \E c \in Clients :
         \A r \in WithId(tables["pets"], Str(UpsertId)) :
           \A f \in UNION {NamedFields(clients[d].inst) : d \in Clients} :
             r[f] = ValueIn(clients[c].inst, f)

\* row r with the fields the instance names set to the instance's values
Overwritten(r, inst) ==
  [f \in DOMAIN r |->
     IF f \in NamedFields(inst) THEN EncodeValue(ValueIn(inst, f)) ELSE r[f]]

\* the callers whose upsert has succeeded
Writers == {c \in Clients : clients[c].pc = "done" /\ clients[c].resp.ok}

\* of the writers in the order p, the last one whose instance names field f
LastWriter(p, f) ==
  p[CHOOSE i \in DOMAIN p :
      /\ f \in NamedFields(clients[p[i]].inst)
      /\ \A j \in DOMAIN p : f \in NamedFields(clients[p[j]].inst) => j <= i]

\* the statement of the upsert of c runs in this step
UpsertRuns(c) ==
  /\ clients[c].pc = "waiting"
  /\ clients[c].op = "upsert"
  /\ clients'[c].pc = "responded"

\* C3 amended: each upsert acts on the row of the id in one atomic step: one
\* that fails changes nothing; one that succeeds adds the row built from its
\* instance when the id has no row, and otherwise overwrites exactly the
\* fields its instance names, keeping the others.  So, for any instances and
\* any interleaving, there is never more than one row of the id, and once
\* the upserts are done and one has succeeded there is exactly one: the row
\* the successful upserts give when run one after the other in some order,
\* each named field holding the value of the last upsert that names it (a
\* combination of the fields of both when they name different fields).
C3_UpsertsApplyInSomeOrder ==
  /\ [](Cardinality(WithId(tables["pets"], Str(UpsertId))) <= 1)
  /\ []((AllUpsertsDone /\ Writers # {}) =>
         /\ Cardinality(WithId(tables["pets"], Str(UpsertId))) = 1
         /\ \E p \in Arrangements(Writers) :
              \A r \in WithId(tables["pets"], Str(UpsertId)) :
                \A f \in UNION {NamedFields(clients[c].inst) : c \in Writers} :
                  r[f] = EncodeValue(ValueIn(clients[LastWriter(p, f)].inst, f)))
  /\ [][\A c \in Clients :
          UpsertRuns(c) =>
            LET e == clients[c].entity
                inst == clients[c].inst
                old == WithId(tables[e], Str(clients[c].id))
                fresh == [f \in tables[e].cols |->
                            IF f = "id" THEN Str(clients[c].id)
                            ELSE EncodeValue(ValueIn(inst, f))]
            IN IF ~clients'[c].resp.ok THEN tables' = tables
               ELSE tables' = PutRows(tables, e,
                      IF old = {} THEN tables[e].rows \cup {fresh}
                      ELSE (tables[e].rows \ old)
                             \cup {Overwritten(r, inst) : r \in old})]_vars

\* two upserts that name different fields have both succeeded on a row that
\* existed: the row holds the age of the one and the owner of the other
C3_Witness ==
  /\ AllUpsertsDone
  /\ Writers = Clients
  /\ \E c, d \in Clients :
       /\ clients[c].inst = << Entry("age", Num(1)) >>
       /\ clients[d].inst = << Entry("owner", Str("x")) >>
  /\ \A c \in Clients : NamedFields(clients[c].inst) \in {{"age"}, {"owner"}}
  /\ \E r \in WithId(tables["pets"], Str(UpsertId)) :
       r["age"] = Num(1) /\ r["owner"] = Str("x")

(***************************************************************************)
(* SpecList: one caller lists "pets" on a loaded store holding four rows.  *)
(***************************************************************************)
Cond(k, v) == [key |-> k, value |-> v]
Where(entries) == [present |-> TRUE, entries |-> entries]
NoWhere == [present |-> FALSE, entries |-> << >>]

ListWheres ==
  { Where(<< >>),
    Where(<< Cond(<<"age", "gt">>, Num(1)) >>),
    Where(<< Cond(<<"age", "gt">>, Num(1)), Cond(<<"owner">>, Str("x")) >>),
    Where(<< Cond(<<"id", "not">>, Str("a")) >>),
    Where(<< Cond(<<"age", "in">>, Arr(<< Num(1), Num(3) >>)) >>),
    Where(<< Cond(<<"age", "zzz">>, Num(1)) >>),
    Where(<< Cond(<<"age", "constructor">>, Num(1)) >>) }

PageValues == {Undefined} \cup {Num(n) : n \in 0..MaxPage}
OrderFields == {Undefined, Str("id"), Str("age")}
Directions == {Undefined, Str("asc"), Str("desc")}

ListFilters ==
  {[NoFilter EXCEPT !.present = TRUE, !.where = w] : w \in ListWheres}
  \cup
  {[present |-> TRUE, where |-> w, first |-> n, skip |-> m,
    orderBy |-> f, orderDirection |-> d] :
     w \in {NoWhere, Where(<< Cond(<<"age", "gt">>, Num(1)) >>)},
     n \in PageValues, m \in PageValues, f \in OrderFields, d \in Directions}
  \cup {NoFilter}

InitList ==
  /\ schema = SchemaA
  /\ \E ageC \in {Num(1), Num(2)}, ageD \in {Num(1), Num(3)} :
       tables = [LoadedTables EXCEPT !["pets"].rows =
                   { PetRow("a", Num(2), Str("x"), Num(1)),
                     PetRow("b", Num(1), Str("y"), Num(2)),
                     PetRow("c", ageC, Str("x"), Num(2)),
                     PetRow("d", ageD, Str("y"), Num(3)) }]
  /\ loader = LoadedLoader
  /\ clients = [c \in Clients |-> IdleClient]
  /\ whereIn = << >>
  /\ whereOut = [status |-> "none"]

ListStep ==
  \/ \E filter \in ListFilters : ListCall(Caller, "pets", filter)
  \/ ExecStatement(Caller)
  \/ Return(Caller)

SpecList == InitList /\ [][ListStep]_vars

\* the statements list would send for the filters that differ from filter
\* in their where values only
SameKeys(f, g) ==
  /\ g.present = f.present
  /\ g.where.present = f.where.present
  /\ Len(g.where.entries) = Len(f.where.entries)
  /\ \A i \in 1..Len(f.where.entries) : g.where.entries[i].key = f.where.entries[i].key
  /\ <<g.first, g.skip, g.orderBy, g.orderDirection>>
       = <<f.first, f.skip, f.orderBy, f.orderDirection>>

\* C5: every where value of a list call is among the bound parameters of
\* the statement it sends, and the text of the statement is the same for
\* all filters that differ in their where values only.
C5_FilterValuesAreParameters ==
  \A c \in Clients :
    (clients[c].op = "list" /\ clients[c].issued = 1) =>
      /\ \A i \in 1..Len(clients[c].filter.where.entries) :
           clients[c].filter.where.entries[i].value \in Range(clients[c].stmt.params)
      /\ \A g \in ListFilters :
           (SameKeys(clients[c].filter, g)
              /\ ListStatement(clients[c].entity, g).status = "ok")
           => ListStatement(clients[c].entity, g).stmt.fragments
                = clients[c].stmt.fragments

\* the field and operator a where key is made of: the key is the field's
\* name followed by the operator's suffix
Resolutions(entity, key) ==
  {fo \in ColumnStatements(entity) \X DOMAIN sqlSymbolsForFilterType :
     KeySegments(fo[1]) \o fo[2] = key}

\* the row satisfies the predicate a where entry stands for
Holds(entity, row, entry) ==
  \E fo \in Resolutions(entity, entry.key) :
    EvalCondition(row, [field |-> fo[1],
                        whereValue |-> getWhereValue(entry.value,
                                         sqlSymbolsForFilterType[fo[2]])])

\* C7: a list call with a where mapping of well-formed keys, and nothing
\* else in its filter, returns exactly the rows that satisfy every entry.
C7_ListReturnsMatches ==
  \A c \in Clients :
    LET cl == clients[c]
        entity == FindEntityById(cl.at.schema, cl.entity)
        entries == cl.filter.where.entries
    IN (/\ cl.pc = "done"
        /\ cl.op = "list"
        /\ cl.filter.where.present
        /\ <<cl.filter.first, cl.filter.skip, cl.filter.orderBy,
             cl.filter.orderDirection>> = <<Undefined, Undefined, Undefined, Undefined>>
        /\ \A i \in 1..Len(entries) : Resolutions(entity, entries[i].key) # {})
       => /\ cl.result.status = "ok"
          /\ Range(cl.result.value)
               = {r \in tables[cl.entity].rows :
                    \A i \in 1..Len(entries) : Holds(entity, r, entries[i])}
          /\ Len(cl.result.value) = Cardinality(Range(cl.result.value))

\* rows s[m+1 .. m+n] of s
Slice(s, m, n) ==
  [i \in 1..(IF Len(s) - m < 0 THEN 0 ELSE IF Len(s) - m < n THEN Len(s) - m ELSE n)
     |-> s[m + i]]

\* the arrangements of the rows of S sorted by field in direction dir
Sorted(S, field, dir) ==
  {p \in Arrangements(S) :
     \A i, j \in 1..Cardinality(S) : i < j => ~Before(p[j], p[i], field, dir)}

\* C10: list with first n >= 1, skip m >= 0, orderBy f and direction d (or
\* none) returns rows m+1 .. m+n of the rows of the entity sorted by f in
\* direction d, ascending when d is omitted.
C10_PageOfSortedRows ==
  \A c \in Clients :
    LET cl == clients[c]
        f == cl.filter
    IN (/\ cl.pc = "done"
        /\ cl.op = "list"
        /\ ~f.where.present
        /\ f.first.t = "number" /\ f.first.v >= 1
        /\ f.skip.t = "number" /\ f.skip.v >= 0
        /\ f.orderBy.t = "string")
       => /\ cl.result.status = "ok"
          /\ \E p \in Sorted(tables[cl.entity].rows, f.orderBy.v,
                               IF f.orderDirection = Undefined THEN "asc"
                               ELSE f.orderDirection.v) :
               cl.result.value = Slice(p, f.skip.v, f.first.v)

C10_Witness ==
  /\ clients[Caller].pc = "done"
  /\ clients[Caller].op = "list"
  /\ ~clients[Caller].filter.where.present
  /\ clients[Caller].filter.first = Num(2)
  /\ clients[Caller].filter.skip = Num(1)
  /\ clients[Caller].filter.orderBy = Str("id")
  /\ clients[Caller].filter.orderDirection = Str("asc")
  /\ clients[Caller].result.status = "ok"
  /\ Len(clients[Caller].result.value) = 2
  /\ clients[Caller].result.value[1]["id"] = Str("b")
  /\ clients[Caller].result.value[2]["id"] = Str("c")

(***************************************************************************)
(* SpecWhere: the plural field's resolver turns the where argument of a    *)
(* query into the store's condition object.                                *)
(***************************************************************************)
\* the store condition of every operator suffix
graphqlFilterToStoreCondition ==
  [ft \in { << >>, <<"not">>, <<"in">>, <<"not", "in">>,
            <<"has">>, <<"not", "has">>,
            <<"gt">>, <<"lt">>, <<"gte">>, <<"lte">>,
            <<"contains">>, <<"not", "contains">>,
            <<"starts", "with">>, <<"not", "starts", "with">>,
            <<"ends", "with">>, <<"not", "ends", "with">> } |->
     CASE ft = << >> -> "equals"
       [] ft = <<"not">> -> "not"
       [] ft = <<"in">> -> "in"
       [] ft = <<"not", "in">> -> "notIn"
       [] ft = <<"has">> -> "has"
       [] ft = <<"not", "has">> -> "notHas"
       [] ft = <<"gt">> -> "gt"
       [] ft = <<"lt">> -> "lt"
       [] ft = <<"gte">> -> "gte"
       [] ft = <<"lte">> -> "lte"
       [] ft = <<"contains">> -> "contains"
       [] ft = <<"not", "contains">> -> "notContains"
       [] ft = <<"starts", "with">> -> "startsWith"
       [] ft = <<"not", "starts", "with">> -> "notStartsWith"
       [] ft = <<"ends", "with">> -> "endsWith"
       [] ft = <<"not", "ends", "with">> -> "notEndsWith"]

\* graphqlFilterToStoreCondition[condition]: the store condition of a known
\* suffix, the inherited member a suffix names, or undefined ("" here)
LookupStoreCondition(condition) ==
  IF condition \in DOMAIN graphqlFilterToStoreCondition
    THEN graphqlFilterToStoreCondition[condition]
  ELSE IF condition \in DOMAIN ObjectPrototype THEN ObjectPrototype[condition]
  ELSE ""

\* whereObject[fieldName] = { [storeCondition]: rawValue }
Assign(whereObject, fieldName, storeCondition, rawValue) ==
  [f \in DOMAIN whereObject \cup {fieldName} |->
     IF f = fieldName THEN [condition |-> storeCondition, value |-> rawValue]
     ELSE whereObject[f]]

\* the forEach of buildWhereObject from entry i on
RECURSIVE BuildWhereFrom(_, _, _)
BuildWhereFrom(entries, i, whereObject) ==
  IF i > Len(entries) THEN [status |-> "ok", value |-> whereObject]
  ELSE LET parts == SplitKey(entries[i].key)
           condition == FilterTypeOf(parts.rest)
           storeCondition == LookupStoreCondition(condition)
       IN IF storeCondition = ""
            THEN [status |-> "error", error |-> "UnknownCondition",
                  key |-> << parts.fieldName >> \o condition]
            ELSE BuildWhereFrom(entries, i + 1,
                   Assign(whereObject, parts.fieldName, storeCondition,
                          entries[i].value))

buildWhereObject(where) == BuildWhereFrom(where, 1, << >>)

WhereFields == {"age", "owner", "birth_year"}
WhereSuffixes ==
  { << >>, <<"gt">>, <<"lt">>, <<"not", "in">>, <<"zzz">>, <<"constructor">> }
WhereValues == {Num(1), Num(2)}
WhereEntries ==
  {Cond(KeySegments(f) \o op, v) : f \in WhereFields, op \in WhereSuffixes,
                                   v \in WhereValues}
WhereInputs ==
  {<< e >> : e \in WhereEntries}
  \cup {<< p[1], p[2] >> :
          p \in {q \in WhereEntries \X WhereEntries : q[1].key # q[2].key}}

InitWhere ==
  /\ schema = NoSchema
  /\ tables = [e \in EntityIds |-> NoTable]
  /\ loader = IdleLoader
  /\ clients = [c \in Clients |-> IdleClient]
  /\ whereIn \in WhereInputs
  /\ whereOut = [status |-> "none"]

\* the resolver is called with a where argument
ResolveWhere ==
  /\ whereOut.status = "none"
  /\ whereOut' = buildWhereObject(whereIn)
  /\ UNCHANGED <<schema, tables, loader, clients, whereIn>>

\* the next query arrives
NextQuery ==
  /\ whereOut.status # "none"
  /\ whereIn' \in WhereInputs
  /\ whereOut' = [status |-> "none"]
  /\ UNCHANGED <<schema, tables, loader, clients>>

SpecWhere == InitWhere /\ [][ResolveWhere \/ NextQuery]_vars

\* C6: a where key made of a field name and a known operator suffix (or no
\* suffix) resolves to that field and that operator, also when the field
\* name holds an underscore; a key with an unknown suffix fails with an
\* error naming the key.
C6_KeyResolvesToFieldAndOperator ==
  \A f \in WhereFields, op \in WhereSuffixes, v \in WhereValues :
    (whereIn = << Cond(KeySegments(f) \o op, v) >> /\ whereOut.status # "none") =>
      IF op \in DOMAIN graphqlFilterToStoreCondition
        THEN /\ whereOut.status = "ok"
             /\ DOMAIN whereOut.value = {f}
             /\ whereOut.value[f] =
                  [condition |-> graphqlFilterToStoreCondition[op], value |-> v]
        ELSE /\ whereOut.status = "error"
             /\ whereOut.key = KeySegments(f) \o op

(***************************************************************************)
(* Further properties of list, checked under SpecList.                     *)
(***************************************************************************)
\* C11: a list call given a limit first >= 0 (0 included) returns at most
\* first rows.
C11_AtMostFirstRows ==
  \A c \in Clients :
    (/\ clients[c].pc = "done"
     /\ clients[c].op = "list"
     /\ clients[c].filter.first.t = "number"
     /\ clients[c].filter.first.v >= 0
     /\ clients[c].result.status = "ok")
    => Len(clients[c].result.value) <= clients[c].filter.first.v

(***************************************************************************)
(* Further properties of the single-row operations, checked under          *)
(* SpecCrud.                                                               *)
(***************************************************************************)
\* the statement of a call of operation op by c runs in this step, on an
\* existing table that has a column for every field the instance names
Runs(c, op) ==
  /\ clients[c].pc = "waiting"
  /\ clients[c].op = op
  /\ clients'[c].pc = "responded"
  /\ tables[clients[c].entity].exists
  /\ NamedFields(clients[c].inst) \subseteq tables[clients[c].entity].cols

\* C12: an upsert succeeds for every instance, the id-only instance
\* included: when no row has the id it adds the row built from the
\* instance, when one has it overwrites the fields the instance names and
\* keeps the others, and it changes no other row.
C12_UpsertAlwaysSucceeds ==
  [][\A c \in Clients :
       Runs(c, "upsert") =>
         LET e == clients[c].entity
             inst == clients[c].inst
             old == WithId(tables[e], Str(clients[c].id))
             fresh == [f \in tables[e].cols |->
                         IF f = "id" THEN Str(clients[c].id)
                         ELSE EncodeValue(ValueIn(inst, f))]
         IN /\ clients'[c].resp.ok
            /\ tables' = PutRows(tables, e,
                 IF old = {} THEN tables[e].rows \cup {fresh}
                 ELSE (tables[e].rows \ old)
                        \cup {Overwritten(r, inst) : r \in old})]_vars

\* C13: an update of an existing row sets exactly the fields the instance
\* names other than id: the row keeps its id (also when the instance carries
\* another id) and the values of the fields not named, and no other row
\* changes.
C13_UpdateSetsNamedFields ==
  [][\A c \in Clients :
       (Runs(c, "update") /\ WithId(tables[clients[c].entity], Str(clients[c].id)) # {}) =>
         LET e == clients[c].entity
             old == WithId(tables[e], Str(clients[c].id))
         IN tables' = PutRows(tables, e,
              (tables[e].rows \ old)
                 \cup {Overwritten(r, clients[c].inst) : r \in old})]_vars

\* an update whose instance carries another id has changed the age of row
\* "a", which keeps its id and its owner, beside an untouched row "b"
C13_Witness ==
  /\ clients[Caller].pc = "done"
  /\ clients[Caller].op = "update"
  /\ clients[Caller].id = "a"
  /\ CarriesOtherId(clients[Caller])
  /\ clients[Caller].resp.ok
  /\ clients[Caller].resp.rowCount = 1
  /\ \E r \in WithId(tables["pets"], Str("a")) :
        r["age"] = Num(2) /\ r["owner"] = Str("x")
  /\ \E r \in WithId(tables["pets"], Str("b")) : r["age"] = Num(1)

\* C17: a delete removes the row of the id and no other, and returns true
\* exactly when such a row existed (the table is unchanged when it returns
\* false); a get of an id that has no row returns null.
C17_DeleteRemovesOneRow ==
  /\ [][\A c \in Clients :
          Runs(c, "delete") =>
            LET e == clients[c].entity
                old == WithId(tables[e], Str(clients[c].id))
            IN /\ tables' = PutRows(tables, e, tables[e].rows \ old)
               /\ clients'[c].resp.ok
               /\ clients'[c].resp.rowCount = Cardinality(old)
               /\ Cardinality(old) <= 1]_vars
  /\ [](\A c \in Clients :
         (clients[c].pc = "done" /\ clients[c].resp.ok) =>
           /\ clients[c].op = "delete" =>
                /\ clients[c].result = Ok(Bool(clients[c].resp.rowCount = 1))
                /\ WithId(tables[clients[c].entity], Str(clients[c].id)) = {}
           /\ (/\ clients[c].op = "get"
               /\ WithId(tables[clients[c].entity], Str(clients[c].id)) = {})
                => clients[c].result = Ok(Null))

\* a delete has returned true and removed row "a", leaving row "b"
C17_Witness ==
  /\ clients[Caller].pc = "done"
  /\ clients[Caller].op = "delete"
  /\ clients[Caller].id = "a"
  /\ clients[Caller].result = Ok(Bool(TRUE))
  /\ WithId(tables["pets"], Str("a")) = {}
  /\ WithId(tables["pets"], Str("b")) # {}

(***************************************************************************)
(* SpecToys: one caller reads, upserts and follows derived fields on a     *)
(* store loaded with SchemaB whose "toys" table holds rows.  Column        *)
(* "broken" holds booleans as 1 and 0, column "sold" as native booleans.   *)
(***************************************************************************)
ToyRow(id, owner, maker, broken, sold, tags) ==
  [c \in ColumnStatements(ToyEntity) |->
     CASE c = "id" -> Str(id)
       [] c = "owner" -> Str(owner)
       [] c = "made_by" -> Str(maker)
       [] c = "broken" -> broken
       [] c = "sold" -> sold
       [] c = "tags" -> tags]

ToyIds == {"a", "d"}
ToyOwners == {"x", "y"}
ToyInstances ==
  { << Entry("broken", Bool(TRUE)), Entry("sold", Bool(TRUE)) >>,
    << Entry("broken", Bool(FALSE)), Entry("sold", Bool(FALSE)) >>,
    << Entry("owner", Str("y")), Entry("made_by", Str("y")),
       Entry("tags", Arr(<< Str("x"), Str("y") >>)) >> }
ToyDerivedNames == {"pets", "toys", "products", "name"}

InitToys ==
  /\ schema = SchemaB
  /\ \E b \in {Num(1), Num(0)}, n \in {Bool(TRUE), Bool(FALSE)} :
       tables = [e \in EntityIds |->
         CASE e = "owners" -> CreatedTable(OwnerEntity)
           [] e = "toys" ->
                [CreatedTable(ToyEntity) EXCEPT !.rows =
                   { ToyRow("a", "x", "y", b, n, Str("[\"x\"]")),
                     ToyRow("b", "y", "x", Num(0), Bool(TRUE), Str("[]")),
                     ToyRow("c", "x", "x", Num(1), Bool(FALSE), Null) }]
           [] OTHER -> NoTable]
  /\ loader = [LoadedLoader EXCEPT !.arg = SchemaB, !.created = SchemaB]
  /\ clients = [c \in Clients |-> IdleClient]
  /\ whereIn = << >>
  /\ whereOut = [status |-> "none"]

ToysStep ==
  \/ \E id \in ToyIds : GetCall(Caller, "toys", id)
  \/ \E id \in ToyIds, inst \in ToyInstances : UpsertCall(Caller, "toys", id, inst)
  \/ \E e \in {"owners", "toys"}, id \in ToyOwners, f \in ToyDerivedNames :
       DerivedCall(Caller, e, id, f)
  \/ ExecStatement(Caller)
  \/ Return(Caller)

SpecToys == InitToys /\ [][ToysStep]_vars

\* C14: getDerivedField returns exactly the rows of the target entity whose
\* derivedFromFieldName column equals the instance id, whatever the name of
\* that field; it fails with FieldNotFound when the name is no derived field
\* of the entity and with EntityNotFound when the target entity is not in
\* the schema.
C14_DerivedRows ==
  \A c \in Clients :
    (/\ clients[c].pc = "done"
     /\ clients[c].op = "derived"
     /\ FindEntityById(schema, clients[c].entity) # Undefined)
    => LET cl == clients[c]
           derivedField == FindDerivedField(FindEntityById(schema, cl.entity), cl.field)
           derivedFromEntity == FindEntityByName(schema, derivedField.derivedFromEntityName)
           matching == {r \in tables[derivedFromEntity.id].rows :
                          r[derivedField.derivedFromFieldName] = Str(cl.id)}
       IN IF derivedField = Undefined THEN cl.result = Error("FieldNotFound")
          ELSE IF derivedFromEntity = Undefined THEN cl.result = Error("EntityNotFound")
          ELSE /\ cl.result.status = "ok"
               /\ Len(cl.result.value) = Cardinality(matching)
               /\ {cl.result.value[i]["id"] : i \in 1..Len(cl.result.value)}
                    = {r["id"] : r \in matching}

\* C15: decoding a row gives true for a Boolean column that holds 1 or the
\* native true, and false for one that holds 0 or the native false.
C15_BooleanDecodesBoth ==
  \A c \in Clients :
    (/\ clients[c].pc = "done"
     /\ clients[c].op \in {"get", "upsert"}
     /\ clients[c].resp.ok
     /\ clients[c].resp.rowCount = 1
     /\ clients[c].result.status = "ok")
    => LET stored == clients[c].resp.rows[1]
           decoded == clients[c].result.value
       IN \A f \in DOMAIN stored :
            FieldByName(FindEntityById(schema, clients[c].target), f).baseGqlType = "Boolean"
            => /\ stored[f] \in {Num(1), Bool(TRUE)} => decoded[f] = Bool(TRUE)
               /\ stored[f] \in {Num(0), Bool(FALSE)} => decoded[f] = Bool(FALSE)

(***************************************************************************)
(* Further properties of load and teardown, checked under Spec.            *)
(***************************************************************************)
\* C16: the schema changes only in a load call that was given a schema, to
\* that schema; teardown, load() without an argument and the CRUD, list and
\* derived-field calls leave it as it is, and once set it is never unset.
C16_SchemaWrittenByLoadOnly ==
  [][/\ schema' # schema =>
          (loader'.op = "load" /\ loader'.arg.set /\ schema' = loader'.arg)
     /\ schema.set => schema'.set]_vars

\* a teardown of a loaded store has completed: the tables are gone and the
\* schema is still the one that was loaded
C16_Witness ==
  /\ loader.op = "teardown"
  /\ loader.pc = "done"
  /\ loader.prior = SchemaA
  /\ schema = SchemaA
  /\ \A e \in EntityIds : ~tables[e].exists

\* C18: while a load (or teardown) is in flight the schema is set: a call
\* started at any point of the drop-then-create sequence reads a schema and
\* never fails with Uninitialized, though it may find its table missing.
C18_SchemaSetDuringLoad ==
  /\ loader.pc \in {"dropping", "creating"} => schema.set
  /\ \A c \in Clients :
       (clients[c].pc # "idle" /\ clients[c].at.pc \in {"dropping", "creating"})
       => /\ clients[c].at.schema.set
          /\ clients[c].result # Error("Uninitialized")

\* a call started while load(newSchema) was dropping the tables of the
\* prior schema has found its table missing
C18_Witness ==
  /\ clients[Caller].pc = "done"
  /\ clients[Caller].at.pc = "dropping"
  /\ clients[Caller].at.replaced
  /\ clients[Caller].issued = 1
  /\ clients[Caller].result = Error("UndefinedTable")

(***************************************************************************)
(* SpecReload: load and teardown calls, one after the other, on a loaded   *)
(* store whose tables hold rows.                                           *)
(***************************************************************************)
\* a row of entity with the given id and no other value
BareRow(entity, id) ==
  [c \in ColumnStatements(entity) |-> IF c = "id" THEN Str(id) ELSE Null]

InitReload ==
  /\ schema \in Schemas
  /\ \E ids \in {{"a"}, {"a", "b"}} :
       tables = [e \in EntityIds |->
         IF e \in IdsOf(schema)
           THEN [CreatedTable(FindEntityById(schema, e)) EXCEPT
                   !.rows = {BareRow(FindEntityById(schema, e), id) : id \in ids}]
           ELSE NoTable]
  /\ loader = IdleLoader
  /\ clients = [c \in Clients |-> IdleClient]
  /\ whereIn = << >>
  /\ whereOut = [status |-> "none"]

SpecReload == InitReload /\ [][Lifecycle]_vars

\* C19: when a load completes after load and teardown calls made one after
\* the other, the backend has exactly one table per entity of the current
\* schema, each with the entity's columns and no row, and no other table.
C19_TablesMatchSchemaAfterLoad ==
  (loader.pc = "done" /\ loader.op = "load" /\ schema.set) =>
    /\ loader.result = "ok"
    /\ \A e \in EntityIds :
         tables[e] = IF e \in IdsOf(schema)
                       THEN CreatedTable(FindEntityById(schema, e))
                       ELSE NoTable

\* load() without an argument has completed on the store loaded with
\* SchemaA: the rows its tables held are gone
C19_Witness ==
  /\ loader.pc = "done"
  /\ loader.op = "load"
  /\ ~loader.arg.set
  /\ loader.prior = SchemaA
  /\ schema = SchemaA
  /\ tables["pets"] = CreatedTable(PetEntity)
  /\ tables["owners"] = CreatedTable(OwnerEntity)

(***************************************************************************)
(* A further property of buildWhereObject, checked under SpecWhere.        *)
(***************************************************************************)
\* C20: the where object buildWhereObject returns keeps the condition of
\* every entry of the where argument, also when two entries are on the same
\* field with different operators (age_gt and age_lt).
C20_OneConditionPerEntry ==
  whereOut.status = "ok" =>
    \A i \in 1..Len(whereIn) :
      LET parts == SplitKey(whereIn[i].key)
          storeCondition == LookupStoreCondition(FilterTypeOf(parts.rest))
      IN /\ parts.fieldName \in DOMAIN whereOut.value
         /\ whereOut.value[parts.fieldName]
              = [condition |-> storeCondition, value |-> whereIn[i].value]
====
